---- MODULE Spec2Model ----
(***************************************************************************)
(* Model of the Game of Life universe of src/src/lib.rs: the Universe      *)
(* struct (width, height, cells) and its public operations.  A cell buffer *)
(* is a sequence over {Dead, Alive}; the Rust index i is position i + 1.   *)
(* An indexing panic ends the call where it happens: whatever the call     *)
(* wrote before is kept, and op.status records "panic".  Under Spec the    *)
(* panic ends the run (the wasm build aborts on it); under SpecRecover the *)
(* caller catches it and goes on calling, so SpecRecover has every         *)
(* behaviour of Spec and more.  SpecLife ticks universes of at least 3 x 3 *)
(* cells on their own.                                                     *)
(* All arithmetic stays far below 2^32, so u32 wrap-around never occurs    *)
(* within the bounds.                                                      *)
(*                                                                         *)
(* op is the last call made (name, arguments, how it ended) and pre the    *)
(* universe as it was when that call was made; the claims are stated over  *)
(* (pre, op, universe now).  Definitions introduced as "Faulty variant"    *)
(* are used by no specification: each replaces the definition after it to  *)
(* test that a theorem notices the fault.                                  *)
(***************************************************************************)
EXTENDS Integers, Sequences, FiniteSets

VARIABLES width, height, cells, op, pre

vars == <<width, height, cells, op, pre>>

\* ------------------------------------------------------------- bounds
\* Largest width / height passed to new, set_width, set_height.
MaxDim == 3
\* Largest buffer allocated: width * height in new, reset and die.
MaxCells == 4
\* Largest tick_per_frame passed to tick.
MaxSteps == 3

\* ------------------------------------------------------------- Cell
Dead == 0
Alive == 1

Cell == {Dead, Alive}

Cell_toggle(c) == IF c = Dead THEN Alive ELSE Dead

\* ------------------------------------------------------------- Universe
\* The struct as a value.
Universe(w, h, cs) == [width |-> w, height |-> h, cells |-> cs]

self == Universe(width, height, cells)

\* Every buffer of n cells (the outcomes of rng.gen_range(0..2) per cell).
RandomCells(n) == [1..n -> Cell]

DeadCells(n) == [i \in 1..n |-> Dead]

\* Faulty variant of get_index: the row stride is the height.
get_index_by_height(u, row, column) == row * u.height + column

\* (row * self.width + column) as usize
get_index(u, row, column) == row * u.width + column

\* Vec indexing: cs[idx] panics unless idx < cs.len().
InBounds(cs, idx) == idx < Len(cs)

At(cs, idx) == cs[idx + 1]

\* ------------------------------------------------------------- neighbours
\* [self.height - 1, 0, 1] and [self.width - 1, 0, 1]
delta_rows(u) == <<u.height - 1, 0, 1>>

delta_cols(u) == <<u.width - 1, 0, 1>>

\* The index looked up for the i-th delta_row and j-th delta_col.
neighbor_index(u, row, column, i, j) ==
    get_index(u, (row + delta_rows(u)[i]) % u.height,
                 (column + delta_cols(u)[j]) % u.width)

\* i-th delta_row, j-th delta_col: skipped by `continue`.
neighbor_skipped(u, i, j) == delta_rows(u)[i] = 0 /\ delta_cols(u)[j] = 0

\* What a call that panicked on an out-of-bounds index returns: nothing.
PANIC == -1

RECURSIVE neighbor_loop(_, _, _, _, _)
\* The loop of live_neighbor_count from the k-th (0-based) of the 9
\* (delta_row, delta_col) pairs on, with `count` so far:
\* count += self.cells[idx] as u8, the indexing checked.
neighbor_loop(u, row, column, k, count) ==
    IF k = 9 THEN count
    ELSE LET i == (k \div 3) + 1
             j == (k % 3) + 1
         IN IF neighbor_skipped(u, i, j)
            THEN neighbor_loop(u, row, column, k + 1, count)
            ELSE LET idx == neighbor_index(u, row, column, i, j)
                 IN IF ~InBounds(u.cells, idx) THEN PANIC
                    ELSE neighbor_loop(u, row, column, k + 1,
                                       count + At(u.cells, idx))

\* let mut count = 0; ...; count
live_neighbor_count(u, row, column) == neighbor_loop(u, row, column, 0, 0)

\* ------------------------------------------------------------- tick
\* Faulty variant of next_cell: a Dead cell is born on 2 live neighbours.
next_cell_birth_on_two(cell, live_neighbors) ==
    IF cell = Alive /\ live_neighbors < 2 THEN Dead
    ELSE IF cell = Alive /\ live_neighbors \in {2, 3} THEN Alive
    ELSE IF cell = Alive /\ live_neighbors > 3 THEN Dead
    ELSE IF cell = Dead /\ live_neighbors = 2 THEN Alive
    ELSE cell

\* The match on (cell, live_neighbors).
next_cell(cell, live_neighbors) ==
    IF cell = Alive /\ live_neighbors < 2 THEN Dead
    ELSE IF cell = Alive /\ live_neighbors \in {2, 3} THEN Alive
    ELSE IF cell = Alive /\ live_neighbors > 3 THEN Dead
    ELSE IF cell = Dead /\ live_neighbors = 3 THEN Alive
    ELSE cell

\* The locals of a running tick: st.cells is self.cells, st.next is next.
TickStart(u) == [cells |-> u.cells, next |-> u.cells, panicked |-> FALSE]

\* Faulty variant of store_next: the cell is written to self.cells as well.
store_in_place(st, idx, c) ==
    [st EXCEPT !.cells[idx + 1] = c, !.next[idx + 1] = c]

\* next[idx] = next_cell;
store_next(st, idx, c) == [st EXCEPT !.next[idx + 1] = c]

RECURSIVE tick_inner(_, _, _, _, _, _, _)
\* for _ in 0..tick_per_frame, from iteration j on, for one cell.
tick_inner(u, row, col, cell, n, j, st) ==
    IF j = n THEN st
    ELSE LET live_neighbors ==
                 live_neighbor_count(Universe(u.width, u.height, st.cells), row, col)
         IN IF live_neighbors = PANIC
            THEN [st EXCEPT !.panicked = TRUE]
            ELSE tick_inner(u, row, col, cell, n, j + 1,
                     store_next(st, get_index(u, row, col),
                                next_cell(cell, live_neighbors)))

RECURSIVE tick_cells(_, _, _, _)
\* for row in 0..self.height { for col in 0..self.width { ... } }, from the
\* k-th (row, col) pair in that order on.
tick_cells(u, n, k, st) ==
    IF k = u.width * u.height \/ st.panicked THEN st
    ELSE LET row == k \div u.width
             col == k % u.width
             idx == get_index(u, row, col)
         IN IF ~InBounds(st.cells, idx)
            THEN [st EXCEPT !.panicked = TRUE]
            ELSE tick_cells(u, n, k + 1,
                     tick_inner(u, row, col, At(st.cells, idx), n, 0, st))

\* self.cells = next; reached only when nothing panicked.
tick_finish(st) ==
    [panicked |-> st.panicked,
     cells |-> IF st.panicked THEN st.cells ELSE st.next]

\* Faulty variant of tick: each of the tick_per_frame generations is computed
\* from the one before.
RECURSIVE tick_chained_from(_, _, _)
tick_chained_from(u, n, r) ==
    IF n = 0 \/ r.panicked THEN r
    ELSE tick_chained_from(u, n - 1,
             tick_finish(tick_cells(Universe(u.width, u.height, r.cells), 1, 0,
                 TickStart(Universe(u.width, u.height, r.cells)))))

tick_chained(u, tick_per_frame) ==
    tick_chained_from(u, tick_per_frame, [panicked |-> FALSE, cells |-> u.cells])

\* Faulty variant of tick: the per-cell loop runs at least once.
tick_at_least_once(u, tick_per_frame) ==
    tick_finish(tick_cells(u, IF tick_per_frame = 0 THEN 1 ELSE tick_per_frame,
                           0, TickStart(u)))

\* Universe::tick as a function of the universe and tick_per_frame.
tick(u, tick_per_frame) == tick_finish(tick_cells(u, tick_per_frame, 0, TickStart(u)))

\* ------------------------------------------------------------- resize
RECURSIVE clear_prefix(_, _, _)
\* for i in i..n { self.cells[i] = Cell::Dead; }
clear_prefix(cs, i, n) ==
    IF i = n THEN [panicked |-> FALSE, cells |-> cs]
    ELSE IF ~InBounds(cs, i) THEN [panicked |-> TRUE, cells |-> cs]
    ELSE clear_prefix([cs EXCEPT ![i + 1] = Dead], i + 1, n)

\* ------------------------------------------------------------- set_cells
RECURSIVE set_cells_from(_, _, _)
\* for (row, col) in cells.iter().cloned(), from the k-th (1-based) pair on.
set_cells_from(u, coords, k) ==
    IF k > Len(coords) THEN [panicked |-> FALSE, cells |-> u.cells]
    ELSE LET idx == get_index(u, coords[k][1], coords[k][2])
         IN IF ~InBounds(u.cells, idx)
            THEN [panicked |-> TRUE, cells |-> u.cells]
            ELSE set_cells_from([u EXCEPT !.cells[idx + 1] = Alive], coords, k + 1)

\* ------------------------------------------------------------- inputs
Dims == {wh \in (1..MaxDim) \X (1..MaxDim) : wh[1] * wh[2] <= MaxCells}

\* Coordinates tried by toggle_cell: every in-range one and the first
\* out-of-range row and column.
Coords == (0..height) \X (0..width)

\* Coordinates tried by set_cells: the first and the last cell, then the
\* first out-of-range column and the first out-of-range row.
InRangeCorners == {<<0, 0>>, <<height - 1, width - 1>>}

CornerCoords == InRangeCorners \cup {<<0, width>>, <<height, 0>>}

\* The slices passed to set_cells: of none, one or two coordinates (a slice
\* whose first coordinate is out of range is tried on its own).
CoordLists ==
    {<<>>} \cup {<<a>> : a \in CornerCoords}
           \cup {<<a, b>> : a \in InRangeCorners, b \in CornerCoords}

Status(panicked) == IF panicked THEN "panic" ELSE "ok"

Call(name, args, panicked) ==
    [name |-> name, args |-> args, status |-> Status(panicked)]

\* The thread of control is inside no aborted call.
Running == op.status # "panic"

\* ------------------------------------------------------------- operations
Init ==
    \E wh \in Dims :
        /\ width = wh[1]
        /\ height = wh[2]
        /\ cells \in RandomCells(wh[1] * wh[2])
        /\ op = Call("new", wh, FALSE)
        /\ pre = Universe(width, height, cells)

toggle_cell(row, col) ==
    /\ Running
    /\ LET idx == get_index(self, row, col)
       IN IF InBounds(cells, idx)
          THEN /\ cells' = [cells EXCEPT ![idx + 1] = Cell_toggle(At(cells, idx))]
               /\ op' = Call("toggle_cell", <<row, col>>, FALSE)
          ELSE /\ cells' = cells
               /\ op' = Call("toggle_cell", <<row, col>>, TRUE)
    /\ pre' = self
    /\ UNCHANGED <<width, height>>

set_width(w) ==
    /\ Running
    /\ width' = w
    /\ LET r == clear_prefix(cells, 0, w * height)
       IN /\ cells' = r.cells
          /\ op' = Call("set_width", <<w>>, r.panicked)
    /\ pre' = self
    /\ UNCHANGED height

set_height(h) ==
    /\ Running
    /\ height' = h
    /\ LET r == clear_prefix(cells, 0, width * h)
       IN /\ cells' = r.cells
          /\ op' = Call("set_height", <<h>>, r.panicked)
    /\ pre' = self
    /\ UNCHANGED width

Tick(n) ==
    /\ Running
    /\ LET r == tick(self, n)
       IN /\ cells' = r.cells
          /\ op' = Call("tick", <<n>>, r.panicked)
    /\ pre' = self
    /\ UNCHANGED <<width, height>>

reset ==
    /\ Running
    /\ width * height <= MaxCells
    /\ cells' \in RandomCells(width * height)
    /\ op' = Call("reset", <<>>, FALSE)
    /\ pre' = self
    /\ UNCHANGED <<width, height>>

die ==
    /\ Running
    /\ width * height <= MaxCells
    /\ cells' = DeadCells(width * height)
    /\ op' = Call("die", <<>>, FALSE)
    /\ pre' = self
    /\ UNCHANGED <<width, height>>

set_cells(coords) ==
    /\ Running
    /\ LET r == set_cells_from(self, coords, 1)
       IN /\ cells' = r.cells
          /\ op' = Call("set_cells", coords, r.panicked)
    /\ pre' = self
    /\ UNCHANGED <<width, height>>

Next ==
    \/ \E rc \in Coords : toggle_cell(rc[1], rc[2])
    \/ \E w \in 1..MaxDim : set_width(w)
    \/ \E h \in 1..MaxDim : set_height(h)
    \/ \E n \in 0..MaxSteps : Tick(n)
    \/ reset
    \/ die
    \/ \E coords \in CoordLists : set_cells(coords)

Spec == Init /\ [][Next]_vars

\* The caller catches the panic of an aborted call and keeps the universe,
\* as the call left it.
Recover ==
    /\ op.status = "panic"
    /\ op' = [op EXCEPT !.status = "caught"]
    /\ UNCHANGED <<width, height, cells, pre>>

NextRecover == Next \/ Recover

SpecRecover == Init /\ [][NextRecover]_vars

\* ------------------------------------------------------------- test universes
\* The side of the universes of tests/web.rs.
SpaceshipSize == 6

input_coords == <<<<1, 2>>, <<2, 3>>, <<3, 1>>, <<3, 2>>, <<3, 3>>>>

expected_coords == <<<<2, 1>>, <<2, 3>>, <<3, 2>>, <<3, 3>>, <<4, 2>>>>

\* An all-Dead SpaceshipSize x SpaceshipSize universe with `coords` set Alive.
spaceship(coords) ==
    LET u == Universe(SpaceshipSize, SpaceshipSize,
                      DeadCells(SpaceshipSize * SpaceshipSize))
    IN [u EXCEPT !.cells = set_cells_from(u, coords, 1).cells]

input_spaceship == spaceship(input_coords)

expected_spaceship == spaceship(expected_coords)

\* ------------------------------------------------------------- tick alone
\* Largest width / height of the universes ticked on their own.
MaxLifeDim == 3
\* Largest width * height of those universes.
MaxLifeCells == 9

LifeDims ==
    {wh \in (3..MaxLifeDim) \X (3..MaxLifeDim) : wh[1] * wh[2] <= MaxLifeCells}

\* A universe as new leaves it, with both dimensions at least 3, or the
\* test's input universe.
InitLife ==
    /\ \/ \E wh \in LifeDims :
            /\ width = wh[1]
            /\ height = wh[2]
            /\ cells \in RandomCells(wh[1] * wh[2])
       \/ /\ width = input_spaceship.width
          /\ height = input_spaceship.height
          /\ cells = input_spaceship.cells
    /\ op = Call("new", <<width, height>>, FALSE)
    /\ pre = Universe(width, height, cells)

NextLife == \E n \in 0..MaxSteps : Tick(n)

SpecLife == InitLife /\ [][NextLife]_vars

\* ------------------------------------------------------------- reference
\* The vocabulary of the claims, independent of the operations above.
\* The cells of the grid of u: (row, column) with row < height, column < width.
Grid(u) == (0..(u.height - 1)) \X (0..(u.width - 1))

CellAt(u, row, column) == At(u.cells, row * u.width + column)

\* The 8 offsets of the Moore neighbourhood.
MooreOffsets == {d \in {-1, 0, 1} \X {-1, 0, 1} : d # <<0, 0>>}

RECURSIVE SumOver(_, _, _, _)
SumOver(u, row, column, ds) ==
    IF ds = {} THEN 0
    ELSE LET d == CHOOSE x \in ds : TRUE
         IN CellAt(u, (row + u.height + d[1]) % u.height,
                      (column + u.width + d[2]) % u.width)
            + SumOver(u, row, column, ds \ {d})

\* Live cells among the 8 torus neighbours, each offset counted once.
TorusCount(u, row, column) == SumOver(u, row, column, MooreOffsets)

\* The rules of Life, as the comments of tick state them.
LifeRule(c, k) ==
    IF c = Alive THEN (IF k \in {2, 3} THEN Alive ELSE Dead)
    ELSE (IF k = 3 THEN Alive ELSE Dead)

\* The cells of u that are Alive.
AliveSet(u) == {rc \in Grid(u) : CellAt(u, rc[1], rc[2]) = Alive}

CoordSet(coords) == {coords[i] : i \in 1..Len(coords)}

\* The buffer after g successive one-generation ticks of u.
RECURSIVE Generations(_, _)
Generations(u, g) ==
    IF g = 0 THEN u.cells
    ELSE Generations([u EXCEPT !.cells = tick(u, 1).cells], g - 1)

Failed == op.status \in {"panic", "caught"}

\* Arguments of the last call.
Row == op.args[1]
Col == op.args[2]
Arg == op.args[1]

Called(name) == op.name = name

\* Some coordinate of the slice is outside the grid of u.
OutOfRange(u, rc) == rc[1] >= u.height \/ rc[2] >= u.width

\* ------------------------------------------------------------- claims

\* C1: on return from every public operation the buffer length equals
\* width * height.
C1_LengthIsArea == op.status = "ok" => Len(cells) = width * height

\* C2: tick(n), n >= 1, leaves the universe as n successive calls of tick(1)
\* would: generation k + 1 is computed from generation k.
C2_TickChainsGenerations ==
    (Called("tick") /\ Arg >= 1 /\ op.status = "ok")
        => cells = Generations(pre, Arg)

\* C3: on a grid of width >= 3 and height >= 3, tick(1) returns with every
\* cell holding the Life successor of the pre-tick snapshot on the torus, and
\* ticking the test's input universe yields exactly its expected universe.
C3_TickIsLife ==
    (Called("tick") /\ Arg = 1 /\ pre.width >= 3 /\ pre.height >= 3)
        => /\ op.status = "ok"
           /\ width = pre.width /\ height = pre.height
           /\ Len(cells) = Len(pre.cells)
           /\ \A rc \in Grid(pre) :
                CellAt(self, rc[1], rc[2])
                    = LifeRule(CellAt(pre, rc[1], rc[2]),
                               TorusCount(pre, rc[1], rc[2]))
           /\ (pre = input_spaceship => AliveSet(self) = CoordSet(expected_coords))

C3_Witness ==
    /\ Called("tick") /\ Arg = 1 /\ op.status = "ok"
    /\ pre = input_spaceship
    /\ self = expected_spaceship

\* C4: set_width / set_height with any positive value returns, reports the
\* new dimension, and leaves a buffer of exactly width * height Dead cells.
C4_ResizeReallocates ==
    (Called("set_width") \/ Called("set_height"))
        => /\ op.status = "ok"
           /\ width = (IF Called("set_width") THEN Arg ELSE pre.width)
           /\ height = (IF Called("set_height") THEN Arg ELSE pre.height)
           /\ cells = DeadCells(width * height)

\* C5: toggle_cell with row < height and column < width flips the cell at
\* index row * width + column and changes nothing else.
C5_ToggleLocality ==
    (Called("toggle_cell") /\ ~OutOfRange(pre, op.args))
        => /\ op.status = "ok"
           /\ width = pre.width /\ height = pre.height
           /\ Len(cells) = Len(pre.cells)
           /\ \A i \in 0..(Len(cells) - 1) :
                At(cells, i) =
                    IF i = Row * pre.width + Col
                    THEN (IF At(pre.cells, i) = Alive THEN Dead ELSE Alive)
                    ELSE At(pre.cells, i)

\* A toggle below the first row of a universe a resize has shrunk.
C5_Witness ==
    /\ Called("toggle_cell") /\ ~OutOfRange(pre, op.args) /\ op.status = "ok"
    /\ Row > 0 /\ pre.width # pre.height
    /\ Len(cells) > width * height
    /\ cells # pre.cells

\* C6: toggle_cell or set_cells given a coordinate with row >= height or
\* column >= width aborts, and that coordinate changes no cell.
C6_OutOfRangeAborts ==
    /\ (Called("toggle_cell") /\ OutOfRange(pre, op.args))
          => (op.status = "panic" /\ cells = pre.cells)
    /\ (Called("set_cells") /\ \E i \in 1..Len(op.args) : OutOfRange(pre, op.args[i]))
          => op.status = "panic"

\* C7: a tick of at least one step is all-or-nothing: if it returns, every
\* cell of the grid holds its successor computed from the pre-tick buffer; if
\* it fails, buffer, width and height are what they were before the call.
C7_TickAllOrNothing ==
    (Called("tick") /\ Arg >= 1)
        => /\ width = pre.width /\ height = pre.height
           /\ Len(cells) = Len(pre.cells)
           /\ Failed => cells = pre.cells
           /\ ~Failed =>
                \A rc \in Grid(pre) :
                    CellAt(self, rc[1], rc[2])
                        = next_cell(CellAt(pre, rc[1], rc[2]),
                                    live_neighbor_count(pre, rc[1], rc[2]))

\* A tick that failed on a universe whose buffer is shorter than its grid.
C7_Witness ==
    /\ Called("tick") /\ Arg >= 1 /\ Failed
    /\ Len(pre.cells) < pre.width * pre.height
    /\ Alive \in {pre.cells[i] : i \in 1..Len(pre.cells)}

\* C8: for every positive width and height the live-neighbour count of every
\* cell is the number of Alive cells over the 8 Moore offsets taken modulo the
\* dimensions, each offset counted once, and lies in 0..8.
C8_CountIsTorusCount ==
    Len(cells) >= width * height =>
        \A rc \in Grid(self) :
            /\ live_neighbor_count(self, rc[1], rc[2]) = TorusCount(self, rc[1], rc[2])
            /\ live_neighbor_count(self, rc[1], rc[2]) \in 0..8

\* C9: tick(n), n > 1, leaves the universe exactly as tick(1) on the same
\* universe does.
C9_TickManyIsTickOnce ==
    (Called("tick") /\ Arg > 1)
        => /\ op.status = "ok"
           /\ width = pre.width /\ height = pre.height
           /\ Len(cells) = Len(pre.cells)
           /\ \A rc \in Grid(pre) :
                CellAt(self, rc[1], rc[2])
                    = next_cell(CellAt(pre, rc[1], rc[2]),
                                live_neighbor_count(pre, rc[1], rc[2]))
           /\ \A i \in (pre.width * pre.height)..(Len(cells) - 1) :
                At(cells, i) = At(pre.cells, i)

\* A tick(n), n > 1, whose result is not what n chained generations give.
C9_Witness ==
    /\ Called("tick") /\ Arg > 1 /\ op.status = "ok"
    /\ cells # Generations(pre, Arg)

\* C10: tick(0) returns and leaves buffer, length, width and height as they
\* were.
C10_TickZeroIsNoOp ==
    (Called("tick") /\ Arg = 0)
        => /\ op.status = "ok"
           /\ cells = pre.cells
           /\ width = pre.width /\ height = pre.height

\* A tick(0) on a universe that a tick(1) would change.
C10_Witness ==
    /\ Called("tick") /\ Arg = 0 /\ op.status = "ok"
    /\ Generations(pre, 1) # pre.cells

====
